---- MODULE Spec2Model ----
(***************************************************************************)
(* A model of the SQLite file reader of src/src/main.rs: the varint codec, *)
(* the serial-type table, the schema-page record decoder and the three     *)
(* commands of main (.dbinfo, .tables and the row count of a table).      *)
(*                                                                         *)
(* A Rust call ends in one of three ways, and the model keeps them apart:  *)
(*   [kind |-> "Ok",    val |-> v]   the function returned Ok(v)           *)
(*   [kind |-> "Err",   err |-> e]   it returned Err(e) (the ? operator)   *)
(*   [kind |-> "Panic", msg |-> m]   assert!/panic!/overflow check aborted *)
(***************************************************************************)
EXTENDS Integers, Sequences, FiniteSets, TLC

VARIABLES
    db,     \* the database file: [len |-> bytes in the file, data |-> offset :> byte]
    pos,    \* the cursor of the open file handle (Seek/Read position)
    img,    \* the description the file was written from (what sqlite3 stored)
    args,   \* the input of the run: the command, or the argument of the function
    pc,     \* "start" before the operation runs, "done" after it
    out     \* what the operation produced

vars == <<db, pos, img, args, pc, out>>

Ok(v) == [kind |-> "Ok", val |-> v]
Err(e) == [kind |-> "Err", err |-> e]
Panic(m) == [kind |-> "Panic", msg |-> m]

Min(a, b) == IF a <= b THEN a ELSE b
Max(a, b) == IF a >= b THEN a ELSE b

(***************************************************************************)
(* The file.  Offsets the description does not write hold zero bytes (a    *)
(* page is zero-filled between its cell pointer array and its cells).      *)
(***************************************************************************)
ByteAt(o) == IF o \in DOMAIN db.data THEN db.data[o] ELSE 0

\* read_exact of n bytes at cursor p: the bytes, or UnexpectedEof past the end.
ReadExact(p, n) ==
    IF p + n > db.len
    THEN [res |-> Err("ReadError"), pos |-> Max(p, db.len)]
    ELSE [res |-> Ok([i \in 1..n |-> ByteAt(p + i - 1)]), pos |-> p + n]

(***************************************************************************)
(* u64.  TLC's integers are 32 bits wide, so a u64 is four limbs           *)
(* <<t, h, m, l>> in base 2^21 (three 7-bit groups per limb), t < 2: the   *)
(* value is t*2^63 + h*2^42 + m*2^21 + l.  Arithmetic is modulo 2^64.      *)
(***************************************************************************)
Limb == 2^21

U64Zero == <<0, 0, 0, 0>>

U64FromInt(n) == <<0, 0, n \div Limb, n % Limb>>

\* x << 7
U64Shl7(x) ==
    LET l == x[4] * 128
        m == x[3] * 128 + (l \div Limb)
        h == x[2] * 128 + (m \div Limb)
        t == x[1] * 128 + (h \div Limb)
    IN  <<t % 2, h % Limb, m % Limb, l % Limb>>

\* x + c for a small c (a byte)
U64Add(x, c) ==
    LET l == x[4] + c
        m == x[3] + (l \div Limb)
        h == x[2] + (m \div Limb)
        t == x[1] + (h \div Limb)
    IN  <<t % 2, h % Limb, m % Limb, l % Limb>>

\* x - c for a small c, x >= c
U64Sub(x, c) ==
    LET l == x[4] - c
        bl == IF l < 0 THEN 1 ELSE 0
        m == x[3] - bl
        bm == IF m < 0 THEN 1 ELSE 0
        h == x[2] - bm
        bh == IF h < 0 THEN 1 ELSE 0
        t == x[1] - bh
    IN  <<t % 2, h % Limb, m % Limb, l % Limb>>

\* The value as a TLC integer; defined only below 2^31 (no OTHER arm: a
\* larger value stops the check instead of being silently cut).
U64ToInt(x) ==
    CASE x[1] = 0 /\ x[2] = 0 /\ x[3] < 1024 -> x[3] * Limb + x[4]

(***************************************************************************)
(* parse_varint (main.rs 420-467).  The function seeks to `offset`, wraps  *)
(* the reader in a BufReader and reads one byte at a time.                 *)
(***************************************************************************)
\* The loop of lines 441-464; the bytes come from file offset start + idx.
RECURSIVE varint_loop(_, _, _)
varint_loop(start, varint_total, varint_byte_idx) ==
    IF varint_byte_idx >= 9
    THEN [res |-> Panic("assertion failed: varint_byte_idx < 9"), used |-> varint_byte_idx]
    ELSE IF start + varint_byte_idx >= db.len
    THEN [res |-> Err("ReadError"), used |-> varint_byte_idx]
    ELSE LET varint_byte == ByteAt(start + varint_byte_idx)
             msb == varint_byte > 128
             total == U64Add(U64Shl7(varint_total), varint_byte)
         IN  IF ~msb
             THEN [res |-> Ok([value |-> total, size |-> varint_byte_idx + 1]),
                   used |-> varint_byte_idx + 1]
             ELSE varint_loop(start, U64Sub(total, 128), varint_byte_idx + 1)

\* Where the BufReader leaves the cursor of the underlying file: it asks
\* the file for `chunk` bytes whenever its buffer is empty, so the cursor
\* stands a whole number of chunks past `start`, or at the end of the file.
BufReaderCursor(start, used, chunk) ==
    IF start >= db.len THEN start
    ELSE start + Min(db.len - start, chunk * ((Max(used, 1) + chunk - 1) \div chunk))

read_varint_at(start, chunk) ==
    LET r == varint_loop(start, U64Zero, 0)
    IN  [res |-> r.res, pos |-> BufReaderCursor(start, r.used, chunk)]

\* rd = [pos |-> the cursor when the call starts, chunk |-> what one read
\* of the file hands the BufReader].
parse_varint(offset, rd) == read_varint_at(offset, rd.chunk)

\* What one read of the file hands the BufReader: a single byte (the least
\* a read may return) or a full buffer (DEFAULT_BUF_SIZE of std::io).
DEFAULT_BUF_SIZE == 8192
Chunks == {1, DEFAULT_BUF_SIZE}

\* A file holding exactly the bytes of the sequence s, from offset 0.
FileOf(s) == [len |-> Len(s), data |-> [o \in 0..(Len(s) - 1) |-> s[o + 1]]]

(***************************************************************************)
(* The varint codec on its own: the file is a sample byte string and the   *)
(* one operation is parse_varint at offset 0.                              *)
(***************************************************************************)
MaxPrefix == 8
MaxTail == 2
ByteSamples == {0, 1, 127, 128, 129, 255}
ContinuationSamples == {129, 255}

VarintInputs ==
    { [i \in 1..p |-> c] \o t :
        p \in 0..MaxPrefix, c \in ContinuationSamples,
        t \in UNION { [1..n -> ByteSamples] : n \in 1..MaxTail } }

InitVarint ==
    /\ img \in VarintInputs
    /\ db = FileOf(img)
    /\ pos = 0
    /\ args = [offset |-> 0]
    /\ pc = "start"
    /\ out = Ok(<<>>)

\* The call returns: its result, and the cursor its BufReader leaves.
Returned(r) ==
    /\ out' = r.res
    /\ pos' = r.pos

VarintCall ==
    /\ pc = "start"
    /\ \E chunk \in Chunks :
         Returned(parse_varint(args.offset, [pos |-> pos, chunk |-> chunk]))
    /\ pc' = "done"
    /\ UNCHANGED <<db, img, args>>

NextVarint == VarintCall

SpecVarint == InitVarint /\ [][NextVarint]_vars

(***************************************************************************)
(* What the format says a varint is worth, bit by bit (independent of the  *)
(* shift-and-add of the code).                                             *)
(***************************************************************************)
BitOf(byte, i) == (byte \div (2^i)) % 2

RECURSIVE LimbFromBits(_, _, _)
LimbFromBits(bits, lo, n) ==
    IF n = 0 THEN 0
    ELSE bits[lo] + 2 * LimbFromBits(bits, lo + 1, n - 1)

U64FromBits(bits) ==
    <<bits[63], LimbFromBits(bits, 42, 21), LimbFromBits(bits, 21, 21),
      LimbFromBits(bits, 0, 21)>>

\* The encoded length of the varint that starts s: the position of the first
\* byte with the high bit clear, 9 when the first eight all have it set, 0
\* when s ends before the varint does.
HighBit(b) == b >= 128
VarintLength(s) ==
    IF \E n \in 1..Min(8, Len(s)) : ~HighBit(s[n])
    THEN CHOOSE n \in 1..Min(8, Len(s)) :
            ~HighBit(s[n]) /\ \A k \in 1..(n - 1) : HighBit(s[k])
    ELSE IF Len(s) >= 9 THEN 9 ELSE 0

\* n <= 8 bytes: the low 7 bits of each byte, earliest byte most significant.
Concat7Bits(s, n) ==
    [i \in 0..63 |->
        IF i \div 7 < n THEN BitOf(s[n - (i \div 7)] % 128, i % 7) ELSE 0]

\* 9 bytes: 7 bits of each of the first eight, then all 8 bits of the ninth.
NineByteBits(s) ==
    [i \in 0..63 |->
        IF i < 8 THEN BitOf(s[9], i)
        ELSE BitOf(s[8 - ((i - 8) \div 7)] % 128, (i - 8) % 7)]

\* C1: for every well-formed varint of 1 to 8 bytes parse_varint returns the
\* concatenation of the low 7 bits of its bytes (earliest byte most
\* significant) and the number of its bytes as the length; a byte 0x80 is a
\* continuation byte like every other byte with the high bit set.
C1_VarintUpTo8Bytes ==
    (pc = "done" /\ VarintLength(img) \in 1..8) =>
        out = Ok([value |-> U64FromBits(Concat7Bits(img, VarintLength(img))),
                  size |-> VarintLength(img)])

\* C2: when the first eight bytes all have the high bit set, parse_varint
\* returns (56 bits of the first eight bytes) * 256 + the ninth byte with
\* length 9, whatever the ninth byte is, as a returned result.  Stated on the
\* inputs whose first eight bytes are 0x81..0xFF, so that the handling of
\* 0x80 (C1) plays no part.
C2_NinthByteAllBits ==
    (/\ pc = "done"
     /\ Len(img) >= 9
     /\ \A k \in 1..8 : img[k] > 128) =>
        out = Ok([value |-> U64FromBits(NineByteBits(img)), size |-> 9])

(***************************************************************************)
(* serial_type_2_byte_length (main.rs 474-484).  The match arms are tried  *)
(* in order; 0..5 is the half-open range 0, 1, 2, 3, 4.                    *)
(***************************************************************************)
serial_type_2_byte_length_inclusive(serial_type) ==
    IF serial_type \in 0..5 THEN Ok(serial_type)
    ELSE IF serial_type \in {6, 7} THEN Ok(8)
    ELSE IF serial_type \in {8, 9} THEN Ok(0)
    ELSE IF serial_type >= 12 /\ serial_type % 2 = 0 THEN Ok((serial_type - 12) \div 2)
    ELSE IF serial_type >= 13 /\ serial_type % 2 = 1 THEN Ok((serial_type - 13) \div 2)
    ELSE Err("BadSerialNumber")

serial_type_2_byte_length(serial_type) ==
    IF serial_type \in 0..4 THEN Ok(serial_type)
    ELSE IF serial_type = 5 THEN Ok(6)
    ELSE IF serial_type \in {6, 7} THEN Ok(8)
    ELSE IF serial_type \in {8, 9} THEN Ok(0)
    ELSE IF serial_type >= 12 /\ serial_type % 2 = 0 THEN Ok((serial_type - 12) \div 2)
    ELSE IF serial_type >= 13 /\ serial_type % 2 = 1 THEN Ok((serial_type - 13) \div 2)
    ELSE Err("BadSerialNumber")

MaxSerialType == 255

InitSerial ==
    /\ args \in 0..MaxSerialType
    /\ db = FileOf(<<>>)
    /\ pos = 0
    /\ img = <<>>
    /\ pc = "start"
    /\ out = Ok(0)

SerialTypeCall ==
    /\ pc = "start"
    /\ out' = serial_type_2_byte_length(args)
    /\ pc' = "done"
    /\ UNCHANGED <<db, pos, img, args>>

NextSerial == SerialTypeCall

SpecSerial == InitSerial /\ [][NextSerial]_vars

\* The table of the record format, serial types 0 to 11 written out.
FixedWidth == <<0, 1, 2, 3, 4, 6, 8, 8, 0, 0>>

\* C4: for every serial type n in 0..255 the byte length is that of the
\* format's table (0,1,2,3,4,6,8,8,0,0 for 0..9, (n-12)/2 for even n >= 12,
\* (n-13)/2 for odd n >= 13), and 10 and 11 give an error.
C4_ByteLengthTable ==
    pc = "done" =>
        \/ /\ args \in 0..9
           /\ out = Ok(FixedWidth[args + 1])
        \/ /\ args \in {10, 11}
           /\ out.kind = "Err"
        \/ /\ args >= 12
           /\ \E len \in 0..args :
                /\ args = 2 * len + 12 + (args % 2)
                /\ out = Ok(len)

C4_Witness ==
    /\ pc = "done"
    /\ args = 5
    /\ out = Ok(6)

(***************************************************************************)
(* Text.  A string of the file is the sequence of its bytes.               *)
(* String::from_utf8 accepts exactly the well-formed UTF-8 sequences.      *)
(***************************************************************************)
IsCont(s, i, lo, hi) == i <= Len(s) /\ s[i] >= lo /\ s[i] <= hi

RECURSIVE Utf8From(_, _)
Utf8From(s, i) ==
    IF i > Len(s) THEN TRUE
    ELSE LET b == s[i] IN
         IF b < 128 THEN Utf8From(s, i + 1)
         ELSE IF b >= 194 /\ b <= 223
         THEN IsCont(s, i + 1, 128, 191) /\ Utf8From(s, i + 2)
         ELSE IF b >= 224 /\ b <= 239
         THEN /\ IsCont(s, i + 1, IF b = 224 THEN 160 ELSE 128, IF b = 237 THEN 159 ELSE 191)
              /\ IsCont(s, i + 2, 128, 191)
              /\ Utf8From(s, i + 3)
         ELSE IF b >= 240 /\ b <= 244
         THEN /\ IsCont(s, i + 1, IF b = 240 THEN 144 ELSE 128, IF b = 244 THEN 143 ELSE 191)
              /\ IsCont(s, i + 2, 128, 191)
              /\ IsCont(s, i + 3, 128, 191)
              /\ Utf8From(s, i + 4)
         ELSE FALSE

from_utf8(bytes) == IF Utf8From(bytes, 1) THEN Ok(bytes) ELSE Err("InvalidUTF8")

StrTable == <<116, 97, 98, 108, 101>>                \* "table"
StrIndex == <<105, 110, 100, 101, 120>>              \* "index"
StrView == <<118, 105, 101, 119>>                    \* "view"
StrTrigger == <<116, 114, 105, 103, 103, 101, 114>>  \* "trigger"

\* ObjectType::from_str (main.rs 245-257)
ObjectType_from_str(input) ==
    IF input = StrTable THEN Ok("Table")
    ELSE IF input = StrIndex THEN Ok("Index")
    ELSE IF input = StrView THEN Ok("View")
    ELSE IF input = StrTrigger THEN Ok("Trigger")
    ELSE Err("FoundBadObjectType")

(***************************************************************************)
(* parse_sql_schema_table_cell (main.rs 304-409).  Every operator below    *)
(* returns [res, pos, cols]: the Rust result, the cursor the call leaves,  *)
(* and the record columns read so far as [at |-> offset, len |-> bytes]    *)
(* (kept for the properties; the code does not return it).                 *)
(***************************************************************************)
U64Less(a, b) ==
    \/ a[1] < b[1]
    \/ a[1] = b[1] /\ a[2] < b[2]
    \/ a[1] = b[1] /\ a[2] = b[2] /\ a[3] < b[3]
    \/ a[1] = b[1] /\ a[2] = b[2] /\ a[3] = b[3] /\ a[4] < b[4]

\* columns_serial_types = [0; 5]
NB_SCHEMA_COLUMNS == 5

\* The loop of lines 328-338: serial types until the header is consumed.
RECURSIVE serial_types_loop(_, _, _, _, _, _)
serial_types_loop(offset, header_read_size, header_size, col_idx, columns_serial_types, rd) ==
    IF ~U64Less(U64FromInt(header_read_size), header_size)
    THEN [res |-> Ok([types |-> columns_serial_types, offset |-> offset, read |-> col_idx]),
          pos |-> rd.pos]
    ELSE IF ~(col_idx < NB_SCHEMA_COLUMNS)
    THEN [res |-> Panic("assertion failed: col_idx < columns_serial_types.len()"),
          pos |-> rd.pos]
    ELSE LET v == parse_varint(offset, rd) IN
         IF v.res.kind # "Ok" THEN [res |-> v.res, pos |-> v.pos]
         ELSE serial_types_loop(
                  offset + v.res.val.size,
                  header_read_size + v.res.val.size,
                  header_size,
                  col_idx + 1,
                  [columns_serial_types EXCEPT ![col_idx + 1] = U64ToInt(v.res.val.value)],
                  [rd EXCEPT !.pos = v.pos])

\* .map(serial_type_2_byte_length).collect::<Result<Vec<_>, _>>(): the
\* lengths, or the first error.
RECURSIVE collect_byte_lengths(_, _)
collect_byte_lengths(types, i) ==
    IF i > Len(types) THEN Ok(<<>>)
    ELSE LET r == serial_type_2_byte_length(types[i]) IN
         IF r.kind # "Ok" THEN r
         ELSE LET rest == collect_byte_lengths(types, i + 1) IN
              IF rest.kind # "Ok" THEN rest ELSE Ok(<<r.val>> \o rest.val)

\* Lines 349-408: the record body, read in sequence from `offset`.
read_record_body(offset, columns_serial_types, columns_byte_lengths, seek_first, rd) ==
    LET start == IF seek_first THEN offset ELSE rd.pos
        c1 == ReadExact(start, columns_byte_lengths[1])
        c2 == ReadExact(c1.pos, columns_byte_lengths[2])
        c3 == ReadExact(c2.pos, columns_byte_lengths[3])
        c4 == ReadExact(c3.pos, columns_byte_lengths[4])
        c5 == ReadExact(c4.pos, columns_byte_lengths[5])
        col(c, i) == [at |-> c.pos - columns_byte_lengths[i], len |-> columns_byte_lengths[i]]
        t1 == from_utf8(c1.res.val)
        ot == ObjectType_from_str(t1.val)
        t2 == from_utf8(c2.res.val)
        t3 == from_utf8(c3.res.val)
        t5 == from_utf8(c5.res.val)
        odd(i) == columns_serial_types[i] % 2 = 1
        stop(r, p, n) == [res |-> r, pos |-> p,
                          cols |-> [i \in 1..n |->
                                      col(CASE i = 1 -> c1 [] i = 2 -> c2 [] i = 3 -> c3
                                            [] i = 4 -> c4 [] i = 5 -> c5, i)]]
    IN  IF c1.res.kind # "Ok" THEN stop(c1.res, c1.pos, 0)
        ELSE IF ~odd(1) THEN stop(Panic("assertion failed: columns_serial_types[0] odd"), c1.pos, 1)
        ELSE IF t1.kind # "Ok" THEN stop(t1, c1.pos, 1)
        ELSE IF ot.kind # "Ok" THEN stop(ot, c1.pos, 1)
        ELSE IF c2.res.kind # "Ok" THEN stop(c2.res, c2.pos, 1)
        ELSE IF ~odd(2) THEN stop(Panic("assertion failed: columns_serial_types[1] odd"), c2.pos, 2)
        ELSE IF t2.kind # "Ok" THEN stop(t2, c2.pos, 2)
        ELSE IF c3.res.kind # "Ok" THEN stop(c3.res, c3.pos, 2)
        ELSE IF ~odd(3) THEN stop(Panic("assertion failed: columns_serial_types[2] odd"), c3.pos, 3)
        ELSE IF t3.kind # "Ok" THEN stop(t3, c3.pos, 3)
        ELSE IF columns_byte_lengths[4] # 1
        THEN stop(Panic("assertion failed: columns_byte_lengths[3] == 1"), c3.pos, 3)
        ELSE IF c4.res.kind # "Ok" THEN stop(c4.res, c4.pos, 3)
        ELSE IF c5.res.kind # "Ok" THEN stop(c5.res, c5.pos, 4)
        ELSE IF ~odd(5) THEN stop(Panic("assertion failed: columns_serial_types[4] odd"), c5.pos, 5)
        ELSE IF t5.kind # "Ok" THEN stop(t5, c5.pos, 5)
        ELSE stop(Ok([object_type |-> ot.val,
                      name |-> t2.val,
                      tbl_name |-> t3.val,
                      root_page |-> c4.res.val[1],
                      sql |-> t5.val]), c5.pos, 5)

\* The steps of the function are chained: each takes what the one before
\* returned and ends the call when that was an error or a panic.
NoColumns(r, types) == [res |-> r.res, pos |-> r.pos, cols |-> <<>>, types |-> types]

\* Lines 349-408, after the byte lengths were collected (st: the serial types).
cell_body(st, columns_byte_lengths, seek_body, rd) ==
    IF columns_byte_lengths.kind # "Ok"
    THEN NoColumns([res |-> columns_byte_lengths, pos |-> st.pos], st.res.val.read)
    ELSE [types |-> st.res.val.read]
            @@ read_record_body(st.res.val.offset, st.res.val.types,
                                columns_byte_lengths.val, seek_body,
                                [rd EXCEPT !.pos = st.pos])

\* Lines 340-344.
cell_byte_lengths(st, seek_body, rd) ==
    IF st.res.kind # "Ok" THEN NoColumns(st, 0)
    ELSE cell_body(st, collect_byte_lengths(st.res.val.types, 1), seek_body, rd)

\* Lines 322-338 (offset: of the header-size varint v3).
cell_serial_types(offset, v3, seek_body, rd) ==
    IF v3.res.kind # "Ok" THEN NoColumns(v3, 0)
    ELSE cell_byte_lengths(
             serial_types_loop(offset + v3.res.val.size, v3.res.val.size,
                               v3.res.val.value, 0,
                               [i \in 1..NB_SCHEMA_COLUMNS |-> 0],
                               [rd EXCEPT !.pos = v3.pos]),
             seek_body, rd)

\* Lines 317-320 (offset: of the rowid varint v2).
cell_header_size(offset, v2, seek_body, rd) ==
    IF v2.res.kind # "Ok" THEN NoColumns(v2, 0)
    ELSE cell_serial_types(
             offset + v2.res.val.size,
             parse_varint(offset + v2.res.val.size, [rd EXCEPT !.pos = v2.pos]),
             seek_body, rd)

\* Lines 313-315 (offset: of the cell-size varint v1).
cell_rowid(offset, v1, seek_body, rd) ==
    IF v1.res.kind # "Ok" THEN NoColumns(v1, 0)
    ELSE cell_header_size(
             offset + v1.res.val.size,
             parse_varint(offset + v1.res.val.size, [rd EXCEPT !.pos = v1.pos]),
             seek_body, rd)

\* Lines 309-311.
parse_cell(page_offset, cell_offset, seek_body, rd) ==
    cell_rowid(page_offset + cell_offset,
               parse_varint(page_offset + cell_offset, rd), seek_body, rd)

\* The body read without the seek of line 350: from wherever the BufReader
\* of the last parse_varint left the cursor.
parse_sql_schema_table_cell_unseeked(page_offset, cell_offset, rd) ==
    parse_cell(page_offset, cell_offset, FALSE, rd)

parse_sql_schema_table_cell(page_offset, cell_offset, rd) ==
    parse_cell(page_offset, cell_offset, TRUE, rd)

(***************************************************************************)
(* The database image: what the file was written from.  An image is        *)
(*   [page_size, rows, pages]                                              *)
(* rows: the records of the schema page (page 1), each a sequence of       *)
(* columns [st |-> serial type, bytes |-> stored bytes]; pages: the other  *)
(* pages, page number :> [kind, ncells, children, right].  ImageFile lays  *)
(* the image out as the file format prescribes: the 100-byte database      *)
(* header, the page header at 100, the cell pointer array at 108, the      *)
(* cells packed at the end of page 1, page p at (p - 1) * page_size.       *)
(***************************************************************************)
RECURSIVE EncodeContinuation(_)
EncodeContinuation(n) ==
    IF n < 128 THEN <<128 + n>>
    ELSE EncodeContinuation(n \div 128) \o <<128 + (n % 128)>>

EncodeVarint(n) ==
    IF n < 128 THEN <<n>> ELSE EncodeContinuation(n \div 128) \o <<n % 128>>

RECURSIVE Flatten(_)
Flatten(ss) == IF ss = <<>> THEN <<>> ELSE Head(ss) \o Flatten(Tail(ss))

BE16(n) == <<(n \div 256) % 256, n % 256>>
BE32(n) == <<0, (n \div 65536) % 256, (n \div 256) % 256, n % 256>>

TextColumn(bytes) == [st |-> 13 + 2 * Len(bytes), bytes |-> bytes]
Int8Column(n) == [st |-> 1, bytes |-> <<n>>]
Int16Column(n) == [st |-> 2, bytes |-> BE16(n)]
ZeroColumn == [st |-> 8, bytes |-> <<>>]
NullColumn == [st |-> 0, bytes |-> <<>>]

\* header-length varint, serial-type varints, then the column bytes
EncodeRecord(cols) ==
    LET types == Flatten([i \in 1..Len(cols) |-> EncodeVarint(cols[i].st)])
    IN  EncodeVarint(1 + Len(types)) \o types
            \o Flatten([i \in 1..Len(cols) |-> cols[i].bytes])

\* payload-size varint, rowid varint, record
EncodeCell(rowid, cols) ==
    LET record == EncodeRecord(cols)
    IN  EncodeVarint(Len(record)) \o EncodeVarint(rowid) \o record

RECURSIVE CellOffset(_, _)
CellOffset(im, i) ==
    IF i = 0 THEN im.page_size
    ELSE CellOffset(im, i - 1) - Len(EncodeCell(i, im.rows[i]))

Segment(at, bytes) == [o \in at..(at + Len(bytes) - 1) |-> bytes[o - at + 1]]

RECURSIVE MergeSegments(_)
MergeSegments(segs) ==
    IF segs = <<>> THEN <<>> ELSE Head(segs) @@ MergeSegments(Tail(segs))

Magic == <<83, 81, 76, 105, 116, 101, 32, 102, 111, 114, 109, 97, 116, 32, 51, 0>>

PageTypeByte(kind) ==
    CASE kind = "table-leaf" -> 13
      [] kind = "table-interior" -> 5
      [] kind = "index-leaf" -> 10
      [] kind = "index-interior" -> 2

PageSegment(im, p) ==
    LET pg == im.pages[p]
        n == IF pg.kind \in {"table-leaf", "index-leaf"} THEN pg.ncells ELSE Len(pg.children)
    IN  Segment((p - 1) * im.page_size,
                <<PageTypeByte(pg.kind), 0, 0>> \o BE16(n) \o <<0, 0, 0>>
                    \o (IF pg.kind \in {"table-interior", "index-interior"}
                        THEN BE32(pg.right) ELSE <<>>))

RECURSIVE PageSegments(_, _)
PageSegments(im, ps) ==
    IF ps = {} THEN <<>>
    ELSE LET p == CHOOSE q \in ps : TRUE
         IN  <<PageSegment(im, p)>> \o PageSegments(im, ps \ {p})

PageCount(im) == IF DOMAIN im.pages = {} THEN 1
                 ELSE CHOOSE p \in DOMAIN im.pages : \A q \in DOMAIN im.pages : q <= p

ImageFile(im) ==
    LET n == Len(im.rows) IN
    [len |-> im.page_size * PageCount(im),
     data |-> MergeSegments(
         << Segment(0, Magic),
            Segment(16, BE16(im.page_size)),
            Segment(100, <<13, 0, 0>> \o BE16(n) \o BE16(CellOffset(im, n)) \o <<0>>),
            Segment(108, Flatten([i \in 1..n |-> BE16(CellOffset(im, i))])) >>
         \o [i \in 1..n |-> Segment(CellOffset(im, i), EncodeCell(i, im.rows[i]))]
         \o PageSegments(im, DOMAIN im.pages))]

(***************************************************************************)
(* get_cell_ptr_array (main.rs 214-235) and parse_schema_table (270-293).  *)
(* overflow_checks: the build checks integer overflow (debug) or wraps     *)
(* (release).                                                              *)
(***************************************************************************)
get_cell_ptr_array(header, rd, overflow_checks) ==
    LET nb_cells == header[4] * 256 + header[5]
        nbytes == (2 * nb_cells) % 65536
        buf == ReadExact(rd.pos, nbytes)
    IN  IF 2 * nb_cells > 65535 /\ overflow_checks
        THEN [res |-> Panic("attempt to multiply with overflow"), pos |-> rd.pos]
        ELSE IF buf.res.kind # "Ok" THEN buf
        ELSE [res |-> Ok([i \in 1..(nbytes \div 2) |->
                            buf.res.val[2 * i - 1] * 256 + buf.res.val[2 * i]]),
              pos |-> buf.pos]

\* The loop of lines 287-290: the cells in pointer-array order, stopping at
\* the first that fails.
RECURSIVE schema_rows_loop(_, _, _, _)
schema_rows_push(cell_ptr_array, i, sql_schema_rows, row, rd) ==
    IF row.res.kind # "Ok" THEN [res |-> row.res, pos |-> row.pos]
    ELSE schema_rows_loop(cell_ptr_array, i + 1, Append(sql_schema_rows, row.res.val),
                          [rd EXCEPT !.pos = row.pos])

schema_rows_loop(cell_ptr_array, i, sql_schema_rows, rd) ==
    IF i > Len(cell_ptr_array) THEN [res |-> Ok(sql_schema_rows), pos |-> rd.pos]
    ELSE schema_rows_push(cell_ptr_array, i, sql_schema_rows,
                          parse_sql_schema_table_cell(0, cell_ptr_array[i], rd), rd)

\* Lines 281-292, after the page header was read.
schema_table_cells(ptrs, rd) ==
    IF ptrs.res.kind # "Ok" THEN ptrs
    ELSE schema_rows_loop(ptrs.res.val, 1, <<>>, [rd EXCEPT !.pos = ptrs.pos])

schema_table_pointers(header, rd, overflow_checks) ==
    IF header.res.kind # "Ok" THEN header
    ELSE schema_table_cells(
             get_cell_ptr_array(header.res.val, [rd EXCEPT !.pos = header.pos],
                                overflow_checks),
             rd)

parse_schema_table(rd, overflow_checks) ==
    schema_table_pointers(ReadExact(rd.pos, 8), rd, overflow_checks)

(***************************************************************************)
(* The record decoder on its own: the file is a schema page of sample      *)
(* records, and parse_sql_schema_table_cell is called on its cells in any  *)
(* order, any number of times, from wherever the cursor stands.            *)
(***************************************************************************)
Apples == <<97, 112, 112, 108, 101, 115>>            \* "apples"
Oranges == <<111, 114, 97, 110, 103, 101, 115>>      \* "oranges"
Pears == <<112, 101, 97, 114, 115>>                  \* "pears"
Far == <<102, 97, 114>>                              \* "far"
Big == <<98, 105, 103>>                              \* "big"
IdxName == <<105, 100, 120>>                         \* "idx"
ViewName == <<118>>                                  \* "v"
ShortSql == <<67, 82, 69, 65, 84, 69>>               \* "CREATE"
LongSql == [i \in 1..60 |-> 120]                     \* 60 bytes: a two-byte serial type

SchemaRow(type, name, tbl_name, rootpage, sql) ==
    <<TextColumn(type), TextColumn(name), TextColumn(tbl_name), rootpage, TextColumn(sql)>>

RowApples == SchemaRow(StrTable, Apples, Apples, Int8Column(2), LongSql)
RowOranges == SchemaRow(StrTable, Oranges, Oranges, Int8Column(3), ShortSql)
RowFar == SchemaRow(StrTable, Far, Far, Int8Column(17), ShortSql)
RowBig == SchemaRow(StrTable, Big, Big, Int16Column(300), ShortSql)
RowIndex == SchemaRow(StrIndex, IdxName, Apples, Int8Column(9), ShortSql)
RowView == SchemaRow(StrView, ViewName, ViewName, ZeroColumn, ShortSql)
\* records of four and of six columns
RowFour == <<TextColumn(StrTable), TextColumn(Pears), TextColumn(Pears), Int8Column(2)>>
RowSix == RowOranges \o <<Int8Column(7)>>

NoPages == <<>>

MaxCells == 2
CellRowSamples == {RowApples, RowOranges, RowBig, RowView, RowFour, RowSix}

None == [kind |-> "None"]

\* The pointer array as the program reads it from the page.
CellPointers ==
    LET header == ReadExact(100, 8)
    IN  get_cell_ptr_array(header.res.val, [pos |-> header.pos, chunk |-> 1], TRUE).res.val

InitCell ==
    /\ img \in { [page_size |-> 512, rows |-> rs, pages |-> NoPages] :
                    rs \in UNION { [1..n -> CellRowSamples] : n \in 1..MaxCells } }
    /\ db = ImageFile(img)
    /\ pos \in {0, 108 + 2 * Len(img.rows), db.len}
    /\ args = CellPointers
    /\ pc = "start"
    /\ out = [i \in 1..Len(img.rows) |-> None]

\* Cell i is decoded: the result is kept, the cursor stays where the call left it.
CellDecoded(i, r) ==
    /\ out' = [out EXCEPT ![i] = [kind |-> r.res.kind, res |-> r.res,
                                  cols |-> r.cols, types |-> r.types]]
    /\ pos' = r.pos

ParseCell ==
    /\ \E i \in 1..Len(args), chunk \in Chunks :
         CellDecoded(i, parse_sql_schema_table_cell(0, args[i],
                                                    [pos |-> pos, chunk |-> chunk]))
    /\ pc' = "done"
    /\ UNCHANGED <<db, img, args>>

NextCell == ParseCell

SpecCell == InitCell /\ [][NextCell]_vars

\* Where the format puts the columns of record i of the schema page: the
\* first at the end of the record header, each next one after the bytes of
\* the one before.
RECURSIVE SumLen(_, _)
SumLen(cols, n) == IF n = 0 THEN 0 ELSE SumLen(cols, n - 1) + Len(cols[n].bytes)

RecordHeaderLen(cols) ==
    1 + Len(Flatten([i \in 1..Len(cols) |-> EncodeVarint(cols[i].st)]))

RecordBodyStart(im, i) ==
    CellOffset(im, i)
        + Len(EncodeVarint(Len(EncodeRecord(im.rows[i]))))
        + Len(EncodeVarint(i))
        + RecordHeaderLen(im.rows[i])

ExpectedColumns(im, i) ==
    [j \in 1..Len(im.rows[i]) |->
        [at |-> RecordBodyStart(im, i) + SumLen(im.rows[i], j - 1),
         len |-> Len(im.rows[i][j].bytes)]]

\* C3: a record whose header holds n serial types is decoded into exactly n
\* serial types and n column values, column j read at the end of the header
\* plus the lengths of the columns before it, for any n.  Stated on the
\* records whose fourth column, if any, is one byte wide, so that the width
\* of the root page (C8) plays no part.
C3_AnyColumnCount ==
    \A i \in DOMAIN out :
        (/\ out[i].kind # "None"
         /\ (Len(img.rows[i]) >= 4 => Len(img.rows[i][4].bytes) = 1)) =>
            /\ out[i].kind = "Ok"
            /\ out[i].types = Len(img.rows[i])
            /\ out[i].cols = ExpectedColumns(img, i)

\* The row a well-formed five-column schema record stands for.
DescribedRow(cols) ==
    [object_type |-> ObjectType_from_str(cols[1].bytes).val,
     name |-> cols[2].bytes,
     tbl_name |-> cols[3].bytes,
     root_page |-> cols[4].bytes[1],
     sql |-> cols[5].bytes]

\* C10: the row parse_sql_schema_table_cell returns depends only on the
\* bytes of the file and on the cell offset: whatever the cursor was when
\* the call started, however far the read-ahead of parse_varint moved it,
\* and in whatever order the cells are decoded, the result is the one a
\* call from cursor 0 without read-ahead gives, and for a five-column record
\* with a one-byte root page it is the row the record was written from.
C10_CellIndependentOfCursor ==
    \A i \in DOMAIN out :
        out[i].kind # "None" =>
            /\ out[i].res =
                 parse_sql_schema_table_cell(0, args[i], [pos |-> 0, chunk |-> 1]).res
            /\ img.rows[i] \in {RowApples, RowOranges} =>
                 out[i].res = Ok(DescribedRow(img.rows[i]))

\* The second cell decoded before the first, the cursor left inside the page.
C10_Witness ==
    /\ Len(out) = 2
    /\ out[1].kind = "None"
    /\ out[2].kind = "Ok"
    /\ pos < db.len

(***************************************************************************)
(* The program: main (main.rs 21-83) and handle_sql_query (138-191).  The  *)
(* query text is already parsed (pseudo_sql_query_parsing is not           *)
(* modelled): args is the command, [cmd, table].                           *)
(***************************************************************************)
\* output_str of lines 65-70: the names with one space between them.
RECURSIVE JoinNames(_)
JoinNames(names) ==
    IF Len(names) = 1 THEN names[1]
    ELSE names[1] \o <<32>> \o JoinNames(Tail(names))

\* The ".dbinfo" arm, lines 32-51; the file was just opened (cursor 0).
main_dbinfo(rd) ==
    LET db_header == ReadExact(rd.pos, 100)
        page_size == db_header.res.val[17] * 256 + db_header.res.val[18]
        sqlite_schema_table_header == ReadExact(db_header.pos, 8)
        nb_tables == sqlite_schema_table_header.res.val[4] * 256
                        + sqlite_schema_table_header.res.val[5]
    IN  IF db_header.res.kind # "Ok"
        THEN [res |-> Err("CantOpen"), pos |-> db_header.pos, stdout |-> <<>>]
        ELSE IF sqlite_schema_table_header.res.kind # "Ok"
        THEN [res |-> Err("CantOpen"), pos |-> sqlite_schema_table_header.pos,
              stdout |-> <<page_size>>]
        ELSE [res |-> Ok(<<>>), pos |-> sqlite_schema_table_header.pos,
              stdout |-> <<page_size, nb_tables>>]

\* The ".tables" arm, lines 52-72.  table_names.len() - 1 on an empty
\* vector overflows: the checked build panics there, the unchecked one at
\* the slice bound it wraps to.
tables_output(schema, overflow_checks) ==
    LET table_names == [i \in 1..Len(schema.res.val) |-> schema.res.val[i].tbl_name]
    IN  IF schema.res.kind = "Err"
        THEN [res |-> Err("InternalError"), pos |-> schema.pos, names |-> <<>>,
              stdout |-> <<>>]
        ELSE IF schema.res.kind = "Panic"
        THEN [res |-> schema.res, pos |-> schema.pos, names |-> <<>>, stdout |-> <<>>]
        ELSE IF Len(table_names) = 0
        THEN [res |-> Panic(IF overflow_checks THEN "attempt to subtract with overflow"
                            ELSE "range end index out of range"),
              pos |-> schema.pos, names |-> table_names, stdout |-> <<>>]
        ELSE [res |-> Ok(<<>>), pos |-> schema.pos, names |-> table_names,
              stdout |-> <<JoinNames(table_names)>>]

main_tables(rd, overflow_checks) ==
    tables_output(parse_schema_table([rd EXCEPT !.pos = 100], overflow_checks),
                  overflow_checks)

\* Lines 152-155: the first row whose tbl_name is the target.
find_table_row(target_tbl_name, schema) ==
    LET table_rows == schema.res.val
        found == {i \in 1..Len(table_rows) : table_rows[i].tbl_name = target_tbl_name}
    IN  IF schema.res.kind = "Err" THEN [res |-> Err("InternalError"), pos |-> schema.pos]
        ELSE IF schema.res.kind = "Panic" THEN schema
        ELSE IF found = {}
        THEN [res |-> Panic("Could not find table with name"), pos |-> schema.pos]
        ELSE [res |-> Ok(table_rows[CHOOSE i \in found : \A j \in found : i <= j]),
              pos |-> schema.pos]

\* Lines 157-179, for the row found.  root is the root page the table name
\* resolved to (kept for the properties; the code does not return it).
count_cells(target_table_row, overflow_checks) ==
    LET root_page == target_table_row.res.val.root_page
        page_size_be_bytes == ReadExact(16, 2)
        page_size == page_size_be_bytes.res.val[1] * 256 + page_size_be_bytes.res.val[2]
        minus_one == (root_page - 1) % 256                        \* u8
        table_page_offset == (page_size * minus_one) % 65536      \* u16
        table_header_bytes == ReadExact(table_page_offset, 8)
        nb_cells == table_header_bytes.res.val[4] * 256 + table_header_bytes.res.val[5]
        root == IF target_table_row.res.kind = "Ok" THEN Ok(root_page)
                ELSE target_table_row.res
        stop(r, p) == [res |-> r, pos |-> p, root |-> root, stdout |-> <<>>]
    IN  IF target_table_row.res.kind # "Ok"
        THEN stop(target_table_row.res, target_table_row.pos)
        ELSE IF page_size_be_bytes.res.kind # "Ok"
        THEN stop(Err("InternalError"), page_size_be_bytes.pos)
        ELSE IF overflow_checks /\ root_page = 0
        THEN stop(Panic("attempt to subtract with overflow"), page_size_be_bytes.pos)
        ELSE IF overflow_checks /\ page_size * minus_one > 65535
        THEN stop(Panic("attempt to multiply with overflow"), page_size_be_bytes.pos)
        ELSE IF table_header_bytes.res.kind # "Ok"
        THEN stop(Err("InternalError"), table_header_bytes.pos)
        ELSE [res |-> Ok(<<>>), pos |-> table_header_bytes.pos,
              root |-> root, stdout |-> <<nb_cells>>]

\* The CountRows arm, lines 143-180.
handle_sql_query(target_tbl_name, rd, overflow_checks) ==
    count_cells(
        find_table_row(target_tbl_name,
                       parse_schema_table([rd EXCEPT !.pos = 100], overflow_checks)),
        overflow_checks)

(***************************************************************************)
(* The runs of the program: a database image and a command.                *)
(***************************************************************************)
Leaf(n) == [kind |-> "table-leaf", ncells |-> n, children |-> <<>>, right |-> 0]
Interior(children, right) ==
    [kind |-> "table-interior", ncells |-> 0, children |-> children, right |-> right]

\* apples: page 2, a leaf of 4 rows.  oranges: page 3, the root of a tree of
\* three levels (3 -> 4, 5, 6; 4 -> 7, 8).  The index on apples: page 9.
\* far: page 17, a leaf of 300 rows.
TablePages ==
    2 :> Leaf(4)
    @@ 3 :> Interior(<<4, 5>>, 6)
    @@ 4 :> Interior(<<7>>, 8)
    @@ 5 :> Leaf(1)
    @@ 6 :> Leaf(2)
    @@ 7 :> Leaf(2)
    @@ 8 :> Leaf(3)
    @@ 9 :> [kind |-> "index-leaf", ncells |-> 4, children |-> <<>>, right |-> 0]
    @@ 17 :> Leaf(300)

PageSizes == {512, 4096}
MaxRows == 3
SchemaRowSamples == {RowApples, RowOranges, RowFar, RowBig, RowIndex, RowView}

Commands ==
    {[cmd |-> c, table |-> <<>>] : c \in {".dbinfo", ".tables"}}
        \cup {[cmd |-> c, table |-> t] :
                c \in {"CountRows", "Select"}, t \in {Apples, Oranges, Far, Pears}}

Init ==
    /\ img \in { [page_size |-> ps, rows |-> rs, pages |-> TablePages] :
                    ps \in PageSizes,
                    rs \in UNION { [1..n -> SchemaRowSamples] : n \in 0..MaxRows } }
    /\ db = ImageFile(img)
    /\ pos = 0
    /\ args \in Commands
    /\ pc = "start"
    /\ out = [kind |-> "None"]

\* The run ends: what it produced, and where it left the cursor.
Exit(r) ==
    /\ out' = [kind |-> r.res.kind] @@ r
    /\ pos' = r.pos
    /\ pc' = "done"

DbInfo ==
    /\ pc = "start"
    /\ args.cmd = ".dbinfo"
    /\ \E chunk \in Chunks : Exit(main_dbinfo([pos |-> pos, chunk |-> chunk]))
    /\ UNCHANGED <<db, img, args>>

Tables ==
    /\ pc = "start"
    /\ args.cmd = ".tables"
    /\ \E chunk \in Chunks, overflow_checks \in BOOLEAN :
         Exit(main_tables([pos |-> pos, chunk |-> chunk], overflow_checks))
    /\ UNCHANGED <<db, img, args>>

CountRows ==
    /\ pc = "start"
    /\ args.cmd = "CountRows"
    /\ \E chunk \in Chunks, overflow_checks \in BOOLEAN :
         Exit(handle_sql_query(args.table, [pos |-> pos, chunk |-> chunk],
                               overflow_checks))
    /\ UNCHANGED <<db, img, args>>

\* The Select arm, lines 181-188: it prints and reads nothing.
Select ==
    /\ pc = "start"
    /\ args.cmd = "Select"
    /\ out' = [kind |-> "Ok", res |-> Ok(<<>>), stdout |-> <<"SELECT COL FROM TABLE">>]
    /\ pc' = "done"
    /\ UNCHANGED <<db, pos, img, args>>

Next == DbInfo \/ Tables \/ CountRows \/ Select

Spec == Init /\ [][Next]_vars

(***************************************************************************)
(* What the image says, for the properties of the runs.                    *)
(***************************************************************************)
\* The schema rows the decoder of the schema page accepts: five columns,
\* the root page in one byte.
OneByteRoot(cols) == Len(cols) = 5 /\ Len(cols[4].bytes) = 1
OneByteRoots == \A i \in 1..Len(img.rows) : OneByteRoot(img.rows[i])

\* The rows whose tbl_name is the table of the command, and the first.
Named == {i \in 1..Len(img.rows) : img.rows[i][3].bytes = args.table}
FirstNamed == CHOOSE i \in Named : \A j \in Named : i <= j

\* The leaf-level rows of the table B-tree rooted at page p.
RECURSIVE RowsUnder(_)
RECURSIVE RowsUnderAll(_)
RowsUnderAll(children) ==
    IF children = <<>> THEN 0
    ELSE RowsUnder(Head(children)) + RowsUnderAll(Tail(children))
RowsUnder(p) ==
    IF img.pages[p].kind = "table-leaf" THEN img.pages[p].ncells
    ELSE RowsUnderAll(img.pages[p].children) + RowsUnder(img.pages[p].right)

\* The names of the rows whose type is "table", in schema order.
RECURSIVE TableNames(_)
TableNames(rows) ==
    IF rows = <<>> THEN <<>>
    ELSE (IF Head(rows)[1].bytes = StrTable THEN <<Head(rows)[2].bytes>> ELSE <<>>)
            \o TableNames(Tail(rows))

\* C5: the row count of a table whose root page is a table-interior page is
\* the number of leaf-level cells of the whole B-tree.
C5_CountCoversWholeTree ==
    (/\ pc = "done"
     /\ args.cmd = "CountRows"
     /\ OneByteRoots
     /\ Named # {}
     /\ img.pages[img.rows[FirstNamed][4].bytes[1]].kind = "table-interior") =>
        /\ out.kind = "Ok"
        /\ out.stdout = <<RowsUnder(img.rows[FirstNamed][4].bytes[1])>>

\* C6: a CountRows query naming a table no schema row has as tbl_name ends
\* with an error value returned to the caller: no abort, no row count.
C6_TableNotFoundIsAnError ==
    (/\ pc = "done"
     /\ args.cmd = "CountRows"
     /\ OneByteRoots
     /\ Named = {}) =>
        /\ out.kind = "Err"
        /\ out.stdout = <<>>

\* C7: for a CountRows query on an existing table with root page r >= 1 the
\* page header is read at (r - 1) * page_size, for every page size and root
\* page, and the count printed is the 16-bit cell count at offset 3 there.
C7_PageOffsetExact ==
    (/\ pc = "done"
     /\ args.cmd = "CountRows"
     /\ OneByteRoots
     /\ Named # {}
     /\ img.rows[FirstNamed][4].bytes[1] >= 1) =>
        LET at == (img.rows[FirstNamed][4].bytes[1] - 1) * img.page_size
        IN  /\ out.kind = "Ok"
            /\ out.stdout = <<ByteAt(at + 3) * 256 + ByteAt(at + 4)>>

\* C8: a table name resolves to the root page of the first schema row whose
\* tbl_name is that name, whatever rows come before it: any number, of any
\* object kind, with any root-page serial type.  Stated for a first named
\* row with a one-byte root page, followed by rows with one-byte root pages
\* only.
C8_ResolveWhateverPrecedes ==
    (/\ pc = "done"
     /\ args.cmd = "CountRows"
     /\ Named # {}
     /\ \A i \in FirstNamed..Len(img.rows) : OneByteRoot(img.rows[i])) =>
        out.root = Ok(img.rows[FirstNamed][4].bytes[1])

\* C9: .tables lists exactly the names of the schema rows whose type is
\* table, one per row, in schema order; the empty sequence (not a failure)
\* for a schema page with no rows.
C9_TablesListsTableRows ==
    (/\ pc = "done"
     /\ args.cmd = ".tables"
     /\ OneByteRoots) =>
        /\ out.kind = "Ok"
        /\ out.names = TableNames(img.rows)

====
